---- MODULE Spec2Model ----
(***************************************************************************)
(* Model of the "next week collection" email scripts:                      *)
(*   basic : src/update-collection-basic.js          (list layout)         *)
(*   table : src/unnamed/part_000 lines   1..245     (striped table)       *)
(*   card  : src/unnamed/part_000 lines 247..477     (card with count)     *)
(* A run is the top-level script followed by the async main function; each *)
(* awaited fetch is one remote call, and the code after an await is the    *)
(* handler of the call's response.                                         *)
(*                                                                         *)
(* Text is a sequence of chunks of characters in which each of the        *)
(* characters & < > " / is a chunk of its own.  The rendered HTML is a     *)
(* sequence of segments, the pieces of the template literal in order: a    *)
(* "lit" segment is fixed template markup, a "data" segment is the text    *)
(* an interpolation ${...} put there.  The HTML string is the              *)
(* concatenation of the segments' text; the line breaks and indentation    *)
(* between the tags of the template (and what .trim() removes of them)     *)
(* are left out of the lit text.                                           *)
(***************************************************************************)
EXTENDS Integers, Sequences, FiniteSets, TLC

VARIABLES
  script,     \* which of the three scripts runs
  shop,       \* process.env.SHOPIFY_SHOP
  token,      \* process.env.SHOPIFY_ADMIN_TOKEN
  argv2,      \* process.argv[2]
  now,        \* the clock, read by new Date()
  handle,     \* const handle
  pc,         \* position of the run
  calls,      \* the remote calls issued so far, in order: [op, variables, res]
  local,      \* main's locals: title, numericId, products, collectionLink, html
  slot,       \* the remote metafield email.collection_html_1 of the shop
  stdout,     \* lines logged with console.log
  stderr,     \* lines logged with console.error
  exitCode,   \* process exit status, once the process has ended
  isoDate,    \* argument of a direct isoWeekNumberUTC call
  isoWeek,    \* result of that call
  prev        \* what an earlier successful run of the script saw and wrote

vars == <<script, shop, token, argv2, now, handle, pc, calls,
          local, slot, stdout, stderr, exitCode, isoDate, isoWeek, prev>>

(***************************************************************************)
(* Bounds                                                                  *)
(***************************************************************************)
MaxProducts == 2      \* longest product list a listing response carries
FirstYear   == 2000   \* first year of the dates isoWeekNumberUTC is tried on
MaxYear     == 2032   \* last year of those dates

(***************************************************************************)
(* JavaScript values                                                       *)
(***************************************************************************)
NULL      == [null |-> TRUE]        \* null / undefined object
Undefined == <<"(undefined)">>      \* null / undefined string
NaN       == -1                     \* Number(x) that is not finite

Str(s)    == IF s = Undefined THEN <<>> ELSE s        \* String(s ?? "")
Truthy(s) == s # Undefined /\ s # <<>>                \* a string in a condition

RECURSIVE ReplaceAll(_, _, _)
ReplaceAll(s, c, r) ==                                \* s.replace(/c/g, r)
  IF s = <<>> THEN <<>>
  ELSE (IF Head(s) = c THEN r ELSE <<Head(s)>>) \o ReplaceAll(Tail(s), c, r)

DigitChar(d) == <<"0", "1", "2", "3", "4", "5", "6", "7", "8", "9">>[d + 1]

RECURSIVE Digits(_)
Digits(n) ==                                          \* `${n}` of an integer
  IF n < 10 THEN <<DigitChar(n)>>
  ELSE Digits(n \div 10) \o <<DigitChar(n % 10)>>

RECURSIVE LastSegment(_)
LastSegment(s) ==                                     \* s.split("/").pop()
  IF s = <<>> THEN <<>>
  ELSE LET rest == LastSegment(SubSeq(s, 1, Len(s) - 1))
       IN IF s[Len(s)] = "/" THEN <<>>
          ELSE IF \E i \in 1..Len(s) : s[i] = "/"
               THEN rest \o <<s[Len(s)]>>
               ELSE s

(***************************************************************************)
(* esc                                                                     *)
(***************************************************************************)
esc(s) ==                                             \* part_000 (both scripts)
  ReplaceAll(ReplaceAll(ReplaceAll(ReplaceAll(Str(s),
    "&", <<"&", "a", "m", "p", ";">>),
    "<", <<"&", "l", "t", ";">>),
    ">", <<"&", "g", "t", ";">>),
    "\"", <<"&", "q", "u", "o", "t", ";">>)

escBasic(s) ==                                        \* update-collection-basic.js
  ReplaceAll(ReplaceAll(ReplaceAll(Str(s),
    "&", <<"&", "a", "m", "p", ";">>),
    "<", <<"&", "l", "t", ";">>),
    ">", <<"&", "g", "t", ";">>)

(***************************************************************************)
(* Dates.  A Date is [day, ms]: whole days since 1970-01-01 UTC and the    *)
(* milliseconds into that day.                                             *)
(***************************************************************************)
MsPerDay == 86400000

IsLeap(y) == (y % 4 = 0 /\ y % 100 # 0) \/ y % 400 = 0

DaysInMonth(y, m) ==
  IF m = 2 THEN (IF IsLeap(y) THEN 29 ELSE 28)
  ELSE IF m \in {4, 6, 9, 11} THEN 30 ELSE 31

\* leap years before year y
LeapsBefore(y) == ((y - 1) \div 4) - ((y - 1) \div 100) + ((y - 1) \div 400)

\* Date.UTC(y, 0, 1) in days
DaysBeforeYear(y) == 365 * (y - 1970) + LeapsBefore(y) - LeapsBefore(1970)

RECURSIVE DaysBeforeMonth(_, _)
DaysBeforeMonth(y, m) ==
  IF m <= 1 THEN 0 ELSE DaysBeforeMonth(y, m - 1) + DaysInMonth(y, m - 1)

DateUTC(y, m, d) == DaysBeforeYear(y) + DaysBeforeMonth(y, m) + (d - 1)

getUTCFullYear(day) ==
  CHOOSE y \in (1970 + day \div 366)..(1970 + day \div 365) :
    DaysBeforeYear(y) <= day /\ day < DaysBeforeYear(y + 1)

getUTCMonth(day) ==
  LET y == getUTCFullYear(day)
  IN CHOOSE m \in 1..12 :
       /\ DateUTC(y, m, 1) <= day
       /\ day < DateUTC(y, m, 1) + DaysInMonth(y, m)

getUTCDate(day) ==
  day - DateUTC(getUTCFullYear(day), getUTCMonth(day), 1) + 1

getUTCDay(day) == (day + 4) % 7       \* 1970-01-01 was a Thursday; Sunday = 0

isoWeekNumberUTCNoShift(date) ==
  LET d         == DateUTC(getUTCFullYear(date.day), getUTCMonth(date.day),
                           getUTCDate(date.day))
      yearStart == DateUTC(getUTCFullYear(d), 1, 1)
      diffDays  == (d - yearStart) + 1
  IN (diffDays + 6) \div 7

isoWeekNumberUTC(date) ==
  LET d0        == DateUTC(getUTCFullYear(date.day), getUTCMonth(date.day),
                           getUTCDate(date.day))
      day       == IF getUTCDay(d0) = 0 THEN 7 ELSE getUTCDay(d0)
      d         == d0 + 4 - day
      yearStart == DateUTC(getUTCFullYear(d), 1, 1)
      diffDays  == (d - yearStart) + 1
  IN (diffDays + 6) \div 7                            \* Math.ceil(diffDays / 7)

nextWeekHandleUTC(suffix) ==
  LET t            == now.ms + 7 * MsPerDay           \* now.getTime() + 7 days
      nextWeekDate == [day |-> now.day + (t \div MsPerDay), ms |-> t % MsPerDay]
      week         == isoWeekNumberUTC(nextWeekDate)
  IN <<"week-">> \o Digits(week) \o <<"-">> \o suffix

(***************************************************************************)
(* gql: what the code after `await fetch` does with a response.  A         *)
(* response is [status, text]; text is [valid, errors, data, raw], the     *)
(* body and what JSON.parse makes of it (valid = FALSE: not JSON).         *)
(***************************************************************************)
Throw(e)  == [threw |-> TRUE,  error |-> e,    value |-> NULL]
Return(v) == [threw |-> FALSE, error |-> NULL, value |-> v]

Error(prefix, status, detail) ==
  [prefix |-> prefix, status |-> status, detail |-> detail]

ok(res) == res.status \in 200..299                    \* res.ok

gqlNoStatusCheck(res) ==
  IF ~res.text.valid
    THEN Throw(Error("SyntaxError", 0, res.text.raw))
  ELSE IF Len(res.text.errors) # 0
    THEN Throw(Error("GraphQL errors: ", 0, res.text.errors))
  ELSE Return(res.text.data)

gqlNoErrorsCheck(res) ==
  IF ~ok(res)
    THEN Throw(Error("HTTP ", res.status, res.text.raw))
  ELSE IF ~res.text.valid
    THEN Throw(Error("SyntaxError", 0, res.text.raw))
  ELSE Return(res.text.data)

gql(res) ==
  IF ~ok(res)
    THEN Throw(Error("HTTP ", res.status, res.text.raw))
  ELSE IF ~res.text.valid                             \* JSON.parse throws
    THEN Throw(Error("SyntaxError", 0, res.text.raw))
  ELSE IF Len(res.text.errors) # 0
    THEN Throw(Error("GraphQL errors: ", 0, res.text.errors))
  ELSE Return(res.text.data)

(***************************************************************************)
(* Collection Fetcher and Product Lister, from the response on             *)
(***************************************************************************)
getCollectionNumericIdFallback(h, res) ==
  LET d == gql(res)
  IN IF d.threw THEN d
     ELSE LET c == IF d.value = NULL THEN NULL ELSE d.value.collectionByHandle
          IN IF c = NULL
               THEN Return([title |-> <<>>, numericId |-> <<>>])
               ELSE Return([title |-> c.title, numericId |-> LastSegment(c.id)])

getCollectionNumericId(h, res) ==
  LET d == gql(res)
  IN IF d.threw THEN d
     ELSE LET c == IF d.value = NULL THEN NULL ELSE d.value.collectionByHandle
          IN IF c = NULL
               THEN Throw(Error("Collection not found: ", 0, h))
               ELSE Return([title |-> c.title, numericId |-> LastSegment(c.id)])

\* the amount string is held as the number it denotes, in hundredths
toFixed2(n) ==
  Digits(n \div 100) \o <<".", DigitChar((n % 100) \div 10), DigitChar(n % 10)>>

symbols(code) ==
  IF code \in {<<"USD">>, <<"CAD">>, <<"AUD">>} THEN <<"$">>
  ELSE IF code = <<"EUR">> THEN <<"EUR-sign">>
  ELSE IF code = <<"GBP">> THEN <<"GBP-sign">>
  ELSE IF code = <<"HUF">> THEN <<"Ft">>
  ELSE code

formatMoneyTable(n, currencyCode) ==
  IF n = NaN THEN <<>> ELSE symbols(currencyCode) \o toFixed2(n)

formatMoneyCard(n, currencyCode) ==
  IF n = NaN THEN <<>> ELSE currencyCode \o <<" ">> \o toFixed2(n)

formatMoney(n, currencyCode) ==
  IF script = "table" THEN formatMoneyTable(n, currencyCode)
                      ELSE formatMoneyCard(n, currencyCode)

productUrl(p) ==
  IF Truthy(p.onlineStoreUrl) THEN p.onlineStoreUrl
  ELSE <<"https:", "/", "/">> \o Str(shop)
         \o <<".myshopify.com", "/", "products", "/">> \o Str(p.handle)

toProductBasic(p) == [title |-> IF Truthy(p.title) THEN p.title ELSE <<>>,
                      url   |-> productUrl(p)]

toProduct(p) ==
  LET money == IF p.priceRangeV2 = NULL THEN NULL
               ELSE p.priceRangeV2.minVariantPrice
      image == p.featuredImage
  IN [title    |-> IF Truthy(p.title) THEN p.title ELSE <<>>,
      url      |-> productUrl(p),
      price    |-> IF money # NULL
                     THEN formatMoney(money.amount, money.currencyCode)
                     ELSE <<>>,
      imageUrl |-> IF image # NULL /\ Truthy(image.url) THEN image.url ELSE <<>>,
      imageAlt |-> IF image # NULL /\ Truthy(image.altText) THEN image.altText
                   ELSE IF Truthy(p.title) THEN p.title ELSE <<>>]

getProductsInCollection(numericId, res) ==
  LET d == gql(res)
  IN IF d.threw THEN d
     ELSE LET edges == IF d.value = NULL \/ d.value.products = NULL THEN <<>>
                       ELSE d.value.products.edges
          IN Return([i \in 1..Len(edges) |->
                       IF script = "basic" THEN toProductBasic(edges[i].node)
                                           ELSE toProduct(edges[i].node)])

collectionUrlFromHandleDated(h) ==
  <<"https:", "/", "/">> \o Str(shop)
    \o <<".myshopify.com", "/", "collections", "/">>
    \o nextWeekHandleUTC(<<"plants">>)

collectionUrlFromHandle(h) ==
  <<"https:", "/", "/">> \o Str(shop)
    \o <<".myshopify.com", "/", "collections", "/">> \o Str(h)

(***************************************************************************)
(* Renderer.  Lit(part, t): template markup t; Data(part, ctx, t): the     *)
(* text t an interpolation put into the template, in text content          *)
(* (ctx = "text") or inside a double-quoted attribute value (ctx = "attr").*)
(***************************************************************************)
Lit(part, t)       == [kind |-> "lit",  part |-> part, ctx |-> "-", text |-> t]
Data(part, ctx, t) == [kind |-> "data", part |-> part, ctx |-> ctx, text |-> t]

RECURSIVE Join(_, _)
Join(rows, sep) ==                                    \* rows.join(sep)
  IF rows = <<>> THEN <<>>
  ELSE IF Len(rows) = 1 THEN rows[1]
  ELSE rows[1] \o <<sep>> \o Join(Tail(rows), sep)

plural(n) == IF n = 1 THEN <<>> ELSE <<"s">>         \* part_000:418

rowCard(p) ==                                         \* part_000:380-403
  LET img == IF Truthy(p.imageUrl)
               THEN << Lit("img", <<"<img src=\"">>),
                       Data("imageUrl", "attr", p.imageUrl),
                       Lit("img", <<"\" alt=\"">>),
                       Data("imageAlt", "attr", esc(p.imageAlt)),
                       Lit("img", <<"\" width=\"56\" height=\"56\" style=\"display:block;border-radius:10px;object-fit:cover;border:1px solid #eee;\">">>) >>
               ELSE << Lit("placeholder", <<"<div style=\"width:56px;height:56px;border-radius:10px;background:#f3f3f3;border:1px solid #eee;\"></div>">>) >>
      price == IF Truthy(p.price)
                 THEN << Lit("price", <<"<div style=\"margin-top:4px;color:#666;font-size:12px;\">">>),
                         Data("price", "text", esc(p.price)),
                         Lit("price", <<"</div>">>) >>
                 ELSE <<>>
  IN << Lit("tr", <<"<tr>">>),
        Lit("td", <<"<td style=\"padding:10px 0;border-top:1px solid #eee;vertical-align:top;width:68px;\">">>) >>
     \o img
     \o << Lit("td", <<"</td><td style=\"padding:10px 0;border-top:1px solid #eee;vertical-align:top;\"><div style=\"color:#111;font-weight:600;\">">>),
           Data("title", "text", esc(p.title)),
           Lit("td", <<"</div>">>) >>
     \o price
     \o << Lit("td", <<"</td>">>), Lit("trEnd", <<"</tr>">>) >>

rowsOrEmptyNoEmptyRow(products, rows, empty) == rows

rowsOrEmpty(products, rows, empty) ==                 \* products.length ? rows : empty
  IF Len(products) # 0 THEN rows ELSE empty

buildHtmlCard(collectionTitle, products, collectionLink) ==   \* part_000:379-429
  LET rows  == Join([i \in 1..Len(products) |-> rowCard(products[i])],
                    Lit("sep", <<"\n">>))
      empty == << Lit("tr", <<"<tr>">>),
                  Lit("noProducts", <<"<td style=\"padding:10px 0;color:#666;\">No products found.</td>">>),
                  Lit("trEnd", <<"</tr>">>) >>
  IN << Lit("a", <<"<a href=\"">>),
        Data("collectionLink", "attr", collectionLink),
        Lit("a", <<"\" style=\"text-decoration:none;color:inherit;display:block;\"><div style=\"font-family:Arial,sans-serif;font-size:14px;line-height:1.4;color:#111;\"><div style=\"border:1px solid #eee;border-radius:12px;padding:14px 16px;background:#fff;\"><div style=\"font-size:16px;font-weight:700;\">">>),
        Data("collectionTitle", "text", esc(collectionTitle)),
        Lit("countOpen", <<"</div><div style=\"color:#666;font-size:12px;margin-top:2px;\">">>),
        Data("count", "text", Digits(Len(products))),
        Lit("noun", <<" product">>),
        Lit("plural", plural(Len(products))),
        Lit("table", <<"</div><table role=\"presentation\" cellpadding=\"0\" cellspacing=\"0\" style=\"width:100%;border-collapse:collapse;margin-top:10px;\"><tbody>">>) >>
     \o rowsOrEmpty(products, rows, empty)
     \o << Lit("tableEnd", <<"</tbody></table></div></div></a>">>) >>

rowTable(p, index) ==                                 \* part_000:145-172
  LET bgColor == IF index % 2 = 0 THEN <<"#f4ebe6">> ELSE <<"#d6b5a2">>
      img == IF Truthy(p.imageUrl)
               THEN << Lit("img", <<"<img src=\"">>),
                       Data("imageUrl", "attr", p.imageUrl),
                       Lit("img", <<"\" alt=\"">>),
                       Data("imageAlt", "attr", esc(p.imageAlt)),
                       Lit("img", <<"\" width=\"72\" height=\"72\" style=\"display:block;object-fit:cover;border:none;\">">>) >>
               ELSE << Lit("placeholder", <<"<div style=\"width:72px;height:72px;background:#eee;\"></div>">>) >>
      price == IF Truthy(p.price)
                 THEN << Lit("price", <<"<div style=\"margin-top:4px;color:#222829;font-size:13px;\">">>),
                         Data("price", "text", esc(p.price)),
                         Lit("price", <<"</div>">>) >>
                 ELSE <<>>
  IN << Lit("tr", <<"<tr style=\"background:">> \o bgColor \o <<";\">">>),
        Lit("td", <<"<td style=\"padding:12px 10px;vertical-align:top;width:84px;\">">>) >>
     \o img
     \o << Lit("td", <<"</td><td style=\"padding:12px 10px;vertical-align:top;\"><div style=\"color:#222829;font-weight:600;\">">>),
           Data("title", "text", esc(p.title)),
           Lit("td", <<"</div>">>) >>
     \o price
     \o << Lit("td", <<"</td>">>), Lit("trEnd", <<"</tr>">>) >>

buildHtmlTable(collectionTitle, products, collectionLink) ==  \* part_000:143-194
  LET rows  == Join([i \in 1..Len(products) |-> rowTable(products[i], i - 1)],
                    Lit("sep", <<"\n">>))
      empty == << Lit("tr", <<"<tr>">>),
                  Lit("noProducts", <<"<td style=\"padding:12px;color:#222829;\">No products found.</td>">>),
                  Lit("trEnd", <<"</tr>">>) >>
  IN << Lit("a", <<"<a href=\"">>),
        Data("collectionLink", "attr", collectionLink),
        Lit("a", <<"\" style=\"text-decoration:none;color:#222829;display:block;\"><div style=\"font-family:Arial,sans-serif;font-size:14px;line-height:1.4;color:#222829;\">">>),
        Lit("table", <<"<table role=\"presentation\" cellpadding=\"0\" cellspacing=\"0\" style=\"width:100%;border-collapse:collapse;\"><tbody>">>) >>
     \o rowsOrEmpty(products, rows, empty)
     \o << Lit("tableEnd", <<"</tbody></table></div></a>">>) >>

buildHtmlBasic(collectionTitle, products) ==          \* update-collection-basic.js:102-120
  LET item(p) == << Lit("li", <<"<li style=\"margin:0 0 8px 0;\"><a href=\"">>),
                    Data("url", "attr", p.url),
                    Lit("li", <<"\" style=\"color:#111;text-decoration:none;\">">>),
                    Data("title", "text", escBasic(p.title)),
                    Lit("liEnd", <<"</a></li>">>) >>
      items   == Join([i \in 1..Len(products) |-> item(products[i])],
                      Lit("sep", <<"\n">>))
  IN << Lit("div", <<"<div style=\"font-family:Arial,sans-serif;font-size:14px;line-height:1.4;\"><p style=\"margin:0 0 10px 0;\"><strong>">>),
        Data("collectionTitle", "text", escBasic(collectionTitle)),
        Lit("countOpen", <<"</strong> (">>),
        Data("count", "text", Digits(Len(products))),
        Lit("noun", <<" product">>),
        Lit("plural", <<"s">>),
        Lit("ul", <<")</p><ul style=\"padding-left:18px;margin:0;\">">>) >>
     \o (IF items # <<>> THEN items
         ELSE << Lit("noProducts", <<"    <li>No products found.</li>">>) >>)
     \o << Lit("ulEnd", <<"</ul></div>">>) >>

buildHtml(collectionTitle, products, collectionLink) ==
  IF script = "basic" THEN buildHtmlBasic(collectionTitle, products)
  ELSE IF script = "table"
    THEN buildHtmlTable(collectionTitle, products, collectionLink)
    ELSE buildHtmlCard(collectionTitle, products, collectionLink)

(***************************************************************************)
(* The remote service: the responses it may give to each call              *)
(***************************************************************************)
Body(errors, data) == [valid |-> TRUE, raw |-> "json", errors |-> errors, data |-> data]
NotJson == [valid |-> FALSE, raw |-> "<html>Service Unavailable</html>",
            errors |-> <<>>, data |-> NULL]

CollectionId == <<"gid:", "/", "/", "shopify", "/", "Collection", "/", "42">>
ShopId       == <<"gid:", "/", "/", "shopify", "/", "Shop", "/", "7">>
NastyTitle   == <<"<", "b", ">", "\"", "A", "&", "B", "\"", "<", "/", "b", ">">>

Collections ==
  { [id |-> CollectionId, title |-> t] : t \in {<<"Week 4 plants">>, NastyTitle} }

ProductNodes ==
  { [title |-> <<"Rose">>, handle |-> <<"rose">>,
     onlineStoreUrl |-> <<"https:", "/", "/", "flwr.example", "/", "rose">>,
     featuredImage  |-> [url     |-> <<"https:", "/", "/", "cdn.example", "/", "rose.png">>,
                         altText |-> <<"A ", "\"", "red", "\"", " rose">>],
     priceRangeV2   |-> [minVariantPrice |-> [amount |-> 1250, currencyCode |-> <<"USD">>]]],
    [title |-> NastyTitle, handle |-> <<"a-b">>,
     onlineStoreUrl |-> Undefined,
     featuredImage  |-> NULL,
     priceRangeV2   |-> NULL],
    [title |-> <<"Tulip ", "&", " Co">>, handle |-> <<"tulip">>,
     onlineStoreUrl |-> Undefined,
     featuredImage  |-> [url     |-> <<"https:", "/", "/", "cdn.example", "/", "t.png?w=1", "&", "h=", "\"", "2", "\"">>,
                         altText |-> Undefined],
     priceRangeV2   |-> [minVariantPrice |-> [amount |-> NaN, currencyCode |-> <<"EUR">>]]],
    [title |-> Undefined, handle |-> <<"x">>,
     onlineStoreUrl |-> Undefined,
     featuredImage  |-> [url |-> <<>>, altText |-> <<"x">>],
     priceRangeV2   |-> [minVariantPrice |-> [amount |-> 5, currencyCode |-> <<"<", "HUF", ">">>]]] }

EdgeLists ==
  UNION { [1..n -> { [node |-> p] : p \in ProductNodes }] : n \in 0..MaxProducts }

DataOf(op) ==
  IF op = "collectionByHandle"
    THEN {NULL, [collectionByHandle |-> NULL]}
           \cup { [collectionByHandle |-> c] : c \in Collections }
  ELSE IF op = "products"
    THEN {NULL} \cup { [products |-> [edges |-> es]] : es \in EdgeLists }
  ELSE IF op = "shop"
    THEN {NULL, [shop |-> NULL], [shop |-> [id |-> ShopId]]}
  ELSE { [metafieldsSet |-> [userErrors |-> <<>>]],
         [metafieldsSet |-> [userErrors |->
            << [field |-> "value", message |-> "is too long"] >>]] }

\* a payload that would do, carried by a response that fails for another reason
SampleData(op) ==
  IF op = "collectionByHandle"
    THEN [collectionByHandle |-> [id |-> CollectionId, title |-> <<"Week 4 plants">>]]
  ELSE IF op = "products" THEN [products |-> [edges |-> <<>>]]
  ELSE IF op = "shop" THEN [shop |-> [id |-> ShopId]]
  ELSE [metafieldsSet |-> [userErrors |-> <<>>]]

NoRun == [ran |-> FALSE]                     \* no earlier run of the script

\* the listing of a collection whose products changed since the earlier run
ChangedProducts(d) ==
  IF d = NULL \/ d.products.edges = <<>>
    THEN [products |-> [edges |->
            << [node |-> CHOOSE p \in ProductNodes : p.handle = <<"rose">>] >>]]
    ELSE [products |-> [edges |-> Tail(d.products.edges)]]

\* what the service holds when the script runs again: the collection may be
\* gone or renamed, the products are those of the earlier run or have changed
LaterData(op) ==
  IF op = "collectionByHandle"
    THEN {[collectionByHandle |-> NULL]}
           \cup { [collectionByHandle |-> c] : c \in Collections }
  ELSE IF op = "products"
    THEN {prev.products, ChangedProducts(prev.products)}
  ELSE DataOf(op)

Payloads(op) == IF prev = NoRun THEN DataOf(op) ELSE LaterData(op)

Responses(op) ==
  { [status |-> 500, text |-> NotJson],
    [status |-> 401, text |-> Body(<<>>, SampleData(op))],
    [status |-> 200, text |-> NotJson],
    [status |-> 200, text |-> Body(<<"THROTTLED">>, NULL)],
    [status |-> 200, text |-> Body(<<"ACCESS_DENIED">>, SampleData(op))] }
  \cup { [status |-> 200, text |-> Body(<<>>, d)] : d \in Payloads(op) }

NoResponse == [status |-> 0, text |-> NULL]          \* the call is in flight

Call(op, variables) == [op |-> op, variables |-> variables, res |-> NoResponse]

Answer(cs, res) == [cs EXCEPT ![Len(cs)].res = res]

(***************************************************************************)
(* The run                                                                 *)
(***************************************************************************)
NoLocal == [title |-> Undefined, numericId |-> Undefined, products |-> <<>>,
            collectionLink |-> Undefined, html |-> <<>>]

PreviousValue == << Lit("previous", <<"(value of an earlier run)">>) >>

Handles == { Undefined, <<>>, <<"week-4-plants">>, <<"a", "\"", "b", "<", "c">> }

Clocks ==
  { [day |-> d, ms |-> m] :
      d \in { DateUTC(2024, 12, 24), DateUTC(2025, 6, 11), DateUTC(2026, 12, 25) },
      m \in { 0, MsPerDay - 1 } }

Init ==
  /\ script \in {"basic", "table", "card"}
  /\ shop   \in {Undefined, <<>>, <<"flwr-farm">>}
  /\ token  \in {Undefined, <<"shpat_1">>}
  /\ argv2  \in Handles
  /\ now    \in Clocks
  /\ handle = Undefined
  /\ pc = "start"
  /\ calls = <<>>
  /\ local = NoLocal
  /\ slot = PreviousValue
  /\ stdout = <<>>
  /\ stderr = <<>>
  /\ exitCode = -1
  /\ isoDate = [day |-> 0, ms |-> 0]
  /\ isoWeek = 0
  /\ prev = NoRun

handleAlwaysDefault == nextWeekHandleUTC(<<"plants">>)

\* process.argv[2] || nextWeekHandleUTC("plants")
handleExpr == IF Truthy(argv2) THEN argv2 ELSE nextWeekHandleUTC(<<"plants">>)

missingConfigShopOnly == ~Truthy(shop)

missingConfig == ~Truthy(shop) \/ ~Truthy(token)     \* !shop || !token

\* the catch block of main, and the exit on missing configuration
Exit1(e) ==
  /\ stderr' = Append(stderr, e)
  /\ exitCode' = 1
  /\ pc' = "exited"

\* top-level code, then main up to its first await
Startup ==
  /\ pc = "start"
  /\ handle' = handleExpr
  /\ IF missingConfig
       THEN /\ Exit1(Error("Usage: ", 0, <<>>))
            /\ UNCHANGED <<calls, stdout>>
       ELSE /\ stdout' = Append(stdout, "Using collection handle")
            /\ calls' = Append(calls, Call("collectionByHandle", [handle |-> handle']))
            /\ pc' = "collectionByHandle"
            /\ UNCHANGED <<stderr, exitCode>>
  /\ UNCHANGED <<script, shop, token, argv2, now, local, slot, isoDate, isoWeek, prev>>

\* getCollectionNumericId after its await, then getProductsInCollection up to its await
OnCollection ==
  /\ pc = "collectionByHandle"
  /\ \E res \in Responses("collectionByHandle") :
       LET r == getCollectionNumericId(handle, res)
       IN IF r.threw
            THEN /\ Exit1(r.error)
                 /\ calls' = Answer(calls, res)
                 /\ UNCHANGED local
            ELSE /\ local' = [local EXCEPT !.title = r.value.title,
                                           !.numericId = r.value.numericId]
                 /\ calls' = Append(Answer(calls, res),
                               Call("products",
                                    [first |-> 50,
                                     query |-> <<"collection_id:">> \o r.value.numericId]))
                 /\ pc' = "products"
                 /\ UNCHANGED <<stderr, exitCode>>
  /\ UNCHANGED <<script, shop, token, argv2, now, handle, slot, stdout, isoDate, isoWeek, prev>>

\* getProductsInCollection after its await, buildHtml, writeShopMetafield up to its first await
OnProducts ==
  /\ pc = "products"
  /\ \E res \in Responses("products") :
       LET r == getProductsInCollection(local.numericId, res)
       IN IF r.threw
            THEN /\ Exit1(r.error)
                 /\ calls' = Answer(calls, res)
                 /\ UNCHANGED local
            ELSE LET link == IF script = "basic" THEN Undefined
                             ELSE collectionUrlFromHandle(handle)
                 IN /\ local' = [local EXCEPT
                                   !.products = r.value,
                                   !.collectionLink = link,
                                   !.html = buildHtml(local.title, r.value, link)]
                    /\ calls' = Append(Answer(calls, res), Call("shop", <<>>))
                    /\ pc' = "shop"
                    /\ UNCHANGED <<stderr, exitCode>>
  /\ UNCHANGED <<script, shop, token, argv2, now, handle, slot, stdout, isoDate, isoWeek, prev>>

\* writeShopMetafield between its two awaits
OnShop ==
  /\ pc = "shop"
  /\ \E res \in Responses("shop") :
       LET d == gql(res)
           r == IF d.threw THEN d
                ELSE IF d.value = NULL \/ d.value.shop = NULL
                  THEN Throw(Error("TypeError", 0, <<>>))   \* destructuring fails
                  ELSE Return(d.value.shop.id)
       IN /\ IF r.threw
               THEN /\ Exit1(r.error)
                    /\ calls' = Answer(calls, res)
               ELSE /\ calls' = Append(Answer(calls, res),
                                  Call("metafieldsSet",
                                       [ownerId   |-> r.value,
                                        namespace |-> "email",
                                        key       |-> "collection_html_1",
                                        type      |-> "multi_line_text_field",
                                        value     |-> local.html]))
                    /\ pc' = "metafieldsSet"
                    /\ UNCHANGED <<stderr, exitCode>>
  /\ UNCHANGED <<script, shop, token, argv2, now, handle, local, slot, stdout,
                 isoDate, isoWeek, prev>>

\* the service sets the metafield when it answers with success and no userErrors
Applied(res) ==
  /\ ok(res) /\ res.text.valid /\ res.text.errors = <<>>
  /\ res.text.data.metafieldsSet.userErrors = <<>>

userErrorsIgnored(d) == <<>>

\* d?.metafieldsSet?.userErrors || []
userErrors(d) ==
  IF d = NULL \/ d.metafieldsSet = NULL THEN <<>> ELSE d.metafieldsSet.userErrors

\* writeShopMetafield after its second await, then the end of main
OnWrite ==
  /\ pc = "metafieldsSet"
  /\ \E res \in Responses("metafieldsSet") :
       LET d    == gql(res)
           errs == IF d.threw THEN <<>> ELSE userErrors(d.value)
           r    == IF d.threw THEN d
                   ELSE IF Len(errs) # 0
                     THEN Throw(Error("metafieldsSet userErrors: ", 0, errs))
                     ELSE Return(NULL)
       IN /\ calls' = Answer(calls, res)
          /\ slot' = IF Applied(res) THEN calls[Len(calls)].variables.value ELSE slot
          /\ IF r.threw
               THEN /\ Exit1(r.error)
                    /\ UNCHANGED stdout
               ELSE /\ stdout' = stdout \o
                         (IF script = "basic" THEN <<"Wrote products">>
                          ELSE <<"Wrote products", "Collection link used">>)
                    /\ exitCode' = 0
                    /\ pc' = "done"
                    /\ UNCHANGED stderr
  /\ UNCHANGED <<script, shop, token, argv2, now, handle, local, isoDate, isoWeek, prev>>

Next == Startup \/ OnCollection \/ OnProducts \/ OnShop \/ OnWrite

Spec == Init /\ [][Next]_vars

(***************************************************************************)
(* isoWeekNumberUTC called on its own, on every date of FirstYear..MaxYear *)
(***************************************************************************)
InitWeek ==
  /\ script = "card" /\ shop = Undefined /\ token = Undefined
  /\ argv2 = Undefined /\ now = [day |-> 0, ms |-> 0]
  /\ handle = Undefined /\ pc = "isoWeek" /\ calls = <<>> /\ local = NoLocal
  /\ slot = PreviousValue /\ stdout = <<>> /\ stderr = <<>> /\ exitCode = -1
  /\ isoDate \in { [day |-> d, ms |-> m] :
                     d \in DateUTC(FirstYear, 1, 1)..DateUTC(MaxYear, 12, 31),
                     m \in {0, MsPerDay - 1} }
  /\ isoWeek = 0
  /\ prev = NoRun

IsoWeekCall ==
  /\ pc = "isoWeek"
  /\ isoWeek = 0
  /\ isoWeek' = isoWeekNumberUTC(isoDate)
  /\ UNCHANGED <<script, shop, token, argv2, now, handle, pc, calls, local,
                 slot, stdout, stderr, exitCode, isoDate, prev>>

NextWeek == IsoWeekCall

SpecWeek == InitWeek /\ [][NextWeek]_vars

(***************************************************************************)
(* The script run a second time, after a successful run, at a later time   *)
(* and with the same command line and environment.                         *)
(***************************************************************************)
InitRerun ==
  /\ script \in {"basic", "table", "card"}
  /\ shop = <<"flwr-farm">>
  /\ token = <<"shpat_1">>
  /\ argv2 \in Handles
  /\ now = [day |-> DateUTC(2024, 12, 24), ms |-> 0]
  /\ handle = Undefined
  /\ pc = "start"
  /\ calls = <<>>
  /\ local = NoLocal
  /\ slot = PreviousValue
  /\ stdout = <<>>
  /\ stderr = <<>>
  /\ exitCode = -1
  /\ isoDate = [day |-> 0, ms |-> 0]
  /\ isoWeek = 0
  /\ prev = NoRun

LaterClocks ==
  { c \in Clocks : c.day > now.day \/ (c.day = now.day /\ c.ms > now.ms) }

Rerun ==
  /\ pc = "done"
  /\ prev = NoRun
  /\ prev' = [ran        |-> TRUE,
              now        |-> now,
              handle     |-> handle,
              collection |-> calls[1].res.text.data,
              products   |-> calls[2].res.text.data,
              slot       |-> slot]
  /\ now' \in LaterClocks
  /\ handle' = Undefined
  /\ pc' = "start"
  /\ calls' = <<>>
  /\ local' = NoLocal
  /\ stdout' = <<>>
  /\ stderr' = <<>>
  /\ exitCode' = -1
  /\ UNCHANGED <<script, shop, token, argv2, slot, isoDate, isoWeek>>

NextRerun == Next \/ Rerun

SpecRerun == InitRerun /\ [][NextRerun]_vars

TypeOK ==
  /\ pc \in {"start", "collectionByHandle", "products", "shop", "metafieldsSet",
             "done", "exited", "isoWeek"}
  /\ exitCode \in {-1, 0, 1}
  /\ Len(calls) <= 4

(***************************************************************************)
(* Properties                                                              *)
(***************************************************************************)
\* a response that is a success by the API's rules: 2xx, JSON, no errors
GoodResponse(res) ==
  /\ res.status \in 200..299
  /\ res.text.valid
  /\ res.text.errors = <<>>

Answered(i) == calls[i].res # NoResponse

ConfigMissing == shop \in {Undefined, <<>>} \/ token \in {Undefined, <<>>}

Ended == pc \in {"done", "exited"}

CallOrder == <<"collectionByHandle", "products", "shop", "metafieldsSet">>

\* C1: the remote calls are issued in the order collection lookup, product
\* listing, shop-id lookup, metafield write; a call is issued only after the
\* previous one was answered with success, at most one call is in flight, and
\* the write is issued only after the three reads have returned.
C1_SequentialCalls ==
  /\ Len(calls) <= 4
  /\ \A i \in 1..Len(calls) : calls[i].op = CallOrder[i]
  /\ \A i \in 1..(Len(calls) - 1) : Answered(i) /\ GoodResponse(calls[i].res)
  /\ Cardinality({ i \in 1..Len(calls) : ~Answered(i) }) <= 1
  /\ (\E i \in 1..Len(calls) : calls[i].op = "metafieldsSet")
       => /\ Len(calls) = 4
          /\ \A j \in 1..3 : Answered(j) /\ GoodResponse(calls[j].res)

C1_WriteInFlight ==
  /\ Len(calls) = 4
  /\ calls[4].op = "metafieldsSet"
  /\ ~Answered(4)

\* the lookup was answered with success and no collection
NotFound ==
  /\ Len(calls) >= 1
  /\ Answered(1)
  /\ GoodResponse(calls[1].res)
  /\ \/ calls[1].res.text.data = NULL
     \/ calls[1].res.text.data.collectionByHandle = NULL

\* C2: when the lookup returns no collection the run fails with "Collection
\* not found: <handle>"; the listing, the shop-id lookup and the write are
\* never issued, the slot keeps its value, and the one lookup made is for the
\* handle of the run.
C2_NotFoundStops ==
  NotFound =>
    /\ pc = "exited"
    /\ exitCode = 1
    /\ Len(calls) = 1
    /\ calls[1].op = "collectionByHandle"
    /\ calls[1].variables.handle = handle
    /\ slot = PreviousValue
    /\ Len(stderr) = 1
    /\ stderr[1].prefix = "Collection not found: "
    /\ stderr[1].detail = handle

C2_NotFoundSeen == NotFound /\ Truthy(argv2)

\* every step of the chain succeeded: configuration present, four calls
\* answered with success, the collection found, the shop id present and no
\* userErrors in the write's answer
AllStepsSucceeded ==
  /\ ~ConfigMissing
  /\ Len(calls) = 4
  /\ \A i \in 1..4 : Answered(i) /\ GoodResponse(calls[i].res)
  /\ calls[1].res.text.data # NULL
  /\ calls[1].res.text.data.collectionByHandle # NULL
  /\ calls[3].res.text.data # NULL
  /\ calls[3].res.text.data.shop # NULL
  /\ calls[4].res.text.data.metafieldsSet.userErrors = <<>>

\* a failure of one of the kinds the contract lists has happened
ListedFailure ==
  \/ pc # "start" /\ ConfigMissing
  \/ \E i \in 1..Len(calls) : Answered(i) /\ ~GoodResponse(calls[i].res)
  \/ NotFound
  \/ /\ Len(calls) = 4 /\ Answered(4) /\ GoodResponse(calls[4].res)
     /\ calls[4].res.text.data.metafieldsSet.userErrors # <<>>

\* C3: the exit status is 0 exactly when every step succeeded, and it is
\* non-zero after any failure: missing configuration, a non-2xx response,
\* GraphQL errors, collection not found, or userErrors in a 2xx answer to
\* the write.
C3_ExitStatus ==
  /\ Ended => (exitCode = 0 <=> AllStepsSucceeded)
  /\ Ended => exitCode \in {0, 1}
  /\ ListedFailure => (Ended /\ exitCode = 1 /\ Len(stderr) = 1)
  /\ exitCode = 0 => (pc = "done" /\ stderr = <<>>)

C3_UserErrorsFail ==
  /\ Len(calls) = 4 /\ Answered(4) /\ calls[4].res.status = 200
  /\ calls[4].res.text.valid /\ calls[4].res.text.errors = <<>>
  /\ calls[4].res.text.data.metafieldsSet.userErrors # <<>>
  /\ exitCode = 1

\* C4: with the shop subdomain or the access token missing, the run prints
\* the usage message, exits non-zero and issues no remote call, with or
\* without a handle argument.
C4_NoCallWithoutConfig ==
  ConfigMissing =>
    /\ calls = <<>>
    /\ pc \in {"start", "exited"}
    /\ pc = "exited" =>
         /\ exitCode = 1
         /\ Len(stderr) = 1 /\ stderr[1].prefix = "Usage: "
         /\ stdout = <<>>

C4_UsageWithHandle ==
  /\ pc = "exited" /\ Truthy(argv2) /\ Truthy(shop) /\ ~Truthy(token)
  /\ stderr[1].prefix = "Usage: "

\* what gql did with the response to call i
GqlOf(i) == gql(calls[i].res)

RefLeap(y) == IF y % 400 = 0 THEN TRUE ELSE IF y % 100 = 0 THEN FALSE ELSE y % 4 = 0

RefJan1(y) == 365 * (y - 1970) + Cardinality({ z \in 1970..(y - 1) : RefLeap(z) })

RefWeekday(day) == ((day + 3) % 7) + 1        \* Monday = 1 .. Sunday = 7

RefWeek1Monday(y) == (RefJan1(y) + 3) - (RefWeekday(RefJan1(y) + 3) - 1)

RefISOYear(day) ==
  CHOOSE y \in (1969 + day \div 366)..(1971 + day \div 365) :
    RefWeek1Monday(y) <= day /\ day < RefWeek1Monday(y + 1)

RefISOWeek(day) == ((day - RefWeek1Monday(RefISOYear(day))) \div 7) + 1

\* the default handle for a run started at `now`
RefDefaultHandle ==
  <<"week-">> \o Digits(RefISOWeek(now.day + 7)) \o <<"-", "plants">>

\* C6 as the contract states it: a handle argument that is provided is the
\* handle of the run verbatim, whatever its content.
C6_ArgumentVerbatimAsStated ==
  (pc # "start" /\ pc # "isoWeek" /\ argv2 # Undefined) => handle = argv2

\* C6 (amended): a non-empty handle argument is the handle of the run
\* verbatim, in the lookup and in the collection link; the date-derived
\* default "week-<N>-plants" is used when no argument is given or the
\* argument is the empty string.
C6_ArgumentVerbatim ==
  (pc # "start" /\ pc # "isoWeek") =>
    /\ argv2 \notin {Undefined, <<>>} => handle = argv2
    /\ argv2 \in {Undefined, <<>>} => handle = RefDefaultHandle
    /\ Len(calls) >= 1 => calls[1].variables.handle = handle
    /\ local.collectionLink # Undefined =>
         local.collectionLink =
           <<"https:", "/", "/">> \o shop
             \o <<".myshopify.com", "/", "collections", "/">> \o handle

C6_OddArgumentUsed ==
  /\ argv2 = <<"a", "\"", "b", "<", "c">>
  /\ Len(calls) >= 1
  /\ calls[1].variables.handle = argv2
  /\ local.collectionLink # Undefined

\* C7: isoWeekNumberUTC(d) is the ISO-8601 week number of d for every UTC
\* date d, year boundaries included, and lies in 1..53.
C7_IsoWeek ==
  isoWeek # 0 =>
    /\ isoWeek = RefISOWeek(isoDate.day)
    /\ isoWeek \in 1..53
    /\ isoDate.day = 20088 => isoWeek = 1       \* 2024-12-31
    /\ isoDate.day = 19723 => isoWeek = 1       \* 2024-01-01
    /\ isoDate.day = 18628 => isoWeek = 53      \* 2021-01-01
    /\ isoDate.day = 19358 => isoWeek = 52      \* 2023-01-01
    /\ isoDate.day = 20818 => isoWeek = 53      \* 2026-12-31

C7_YearBoundary ==
  /\ isoDate.day = 20088 /\ isoDate.ms = MsPerDay - 1
  /\ isoWeek = 1

(***************************************************************************)
(* Reading the rendered HTML                                               *)
(***************************************************************************)
HtmlBuilt == local.html # <<>>

RECURSIVE TextOf(_)
TextOf(segs) == IF segs = <<>> THEN <<>> ELSE Head(segs).text \o TextOf(Tail(segs))

Parts(html, parts) ==
  LET idx == { i \in 1..Len(html) : html[i].part \in parts }
      nth[k \in 1..Cardinality(idx)] ==
        CHOOSE i \in idx : Cardinality({ j \in idx : j <= i }) = k
  IN [k \in 1..Cardinality(idx) |-> nth[k]]

Entities == { <<"a", "m", "p", ";">>, <<"l", "t", ";">>, <<"g", "t", ";">>,
              <<"q", "u", "o", "t", ";">> }

\* no & < > (nor " inside an attribute value) of the input is left raw in t
NoRawSpecial(t, ctx) ==
  \A i \in 1..Len(t) :
    /\ t[i] \notin {"<", ">"}
    /\ ctx = "attr" => t[i] # "\""
    /\ t[i] = "&" =>
         \E e \in Entities :
           i + Len(e) <= Len(t) /\ SubSeq(t, i + 1, i + Len(e)) = e

\* the text esc must produce, character by character
RefEscChar(c) ==
  IF c = "&" THEN <<"&", "a", "m", "p", ";">>
  ELSE IF c = "<" THEN <<"&", "l", "t", ";">>
  ELSE IF c = ">" THEN <<"&", "g", "t", ";">>
  ELSE IF c = "\"" THEN <<"&", "q", "u", "o", "t", ";">>
  ELSE <<c>>

RECURSIVE RefEsc(_)
RefEsc(t) == IF t = <<>> THEN <<>> ELSE RefEscChar(Head(t)) \o RefEsc(Tail(t))

\* C8: buildHtml (card layout) escapes every piece of remote or user text it
\* interpolates: collection title, product title, image alt text, price,
\* image URL and collection link leave no raw & < > (nor " in an attribute)
\* in the output.
C8_AllInterpolationsEscaped ==
  (script = "card" /\ HtmlBuilt) =>
    \A i \in 1..Len(local.html) :
      local.html[i].kind = "data" =>
        NoRawSpecial(local.html[i].text, local.html[i].ctx)

\* the count line as it reads in the output
CountLine(html) ==
  LET idx == Parts(html, {"count", "noun", "plural"})
  IN TextOf([k \in 1..Len(idx) |-> html[idx[k]]])

\* C9: the count line of buildHtml reads "1 product" for one product and
\* "<n> products" for every other n, "0 products" included.
C9_CountLine ==
  (script \in {"basic", "card"} /\ HtmlBuilt) =>
    LET n == Len(local.products)
    IN CountLine(local.html) =
         Digits(n) \o <<" product">> \o (IF n = 1 THEN <<>> ELSE <<"s">>)

\* the segments of the k-th table row, from its <tr> to its </tr>
Row(html, k) ==
  SubSeq(html, Parts(html, {"tr"})[k], Parts(html, {"trEnd"})[k])

HasPart(segs, part) == \E i \in 1..Len(segs) : segs[i].part = part

DataText(segs, part) ==
  LET i == CHOOSE j \in 1..Len(segs) : segs[j].kind = "data" /\ segs[j].part = part
  IN segs[i].text

\* C10: the table of buildHtml (table and card layouts) always has a body:
\* for no products exactly one row, the "No products found." row; otherwise
\* exactly one row per product, in input order, and no "No products found."
\* row; a product without a featured image has its row, with the fixed-size
\* placeholder block where the image would be.
C10_TableRows ==
  (script \in {"table", "card"} /\ HtmlBuilt) =>
    LET html     == local.html
        products == local.products
        n        == Len(products)
        trs      == Parts(html, {"tr"})
        ends     == Parts(html, {"trEnd"})
        open     == Parts(html, {"table"})
        close    == Parts(html, {"tableEnd"})
    IN /\ Len(open) = 1 /\ Len(close) = 1
       /\ Len(trs) >= 1
       /\ Len(trs) = Len(ends)
       /\ \A k \in 1..Len(trs) :
            /\ open[1] < trs[k] /\ trs[k] < ends[k] /\ ends[k] < close[1]
            /\ k < Len(trs) => ends[k] < trs[k + 1]
       /\ n = 0 =>
            /\ Len(trs) = 1
            /\ Len(Parts(html, {"noProducts"})) = 1
            /\ HasPart(Row(html, 1), "noProducts")
       /\ n > 0 =>
            /\ Len(trs) = n
            /\ Len(Parts(html, {"noProducts"})) = 0
            /\ \A k \in 1..n :
                 LET row == Row(html, k)
                 IN /\ DataText(row, "title") = RefEsc(products[k].title)
                    /\ Len(Parts(row, {"title"})) = 1
                    /\ IF products[k].imageUrl = <<>>
                         THEN /\ Len(Parts(row, {"placeholder"})) = 1
                              /\ ~HasPart(row, "img")
                         ELSE /\ ~HasPart(row, "placeholder")
                              /\ DataText(row, "imageUrl") = products[k].imageUrl

C10_RowWithoutImage ==
  /\ script \in {"table", "card"} /\ HtmlBuilt
  /\ Len(local.products) = 2
  /\ local.products[1].imageUrl # <<>>
  /\ local.products[2].imageUrl = <<>>
  /\ HasPart(Row(local.html, 2), "placeholder")

\* the write calls of the run
Writes == { i \in 1..Len(calls) : calls[i].op = "metafieldsSet" }

\* this run and the earlier one used the same handle and were given the same
\* collection and the same products
SameAsEarlierRun ==
  /\ prev # NoRun
  /\ Len(calls) >= 2 /\ Answered(1) /\ Answered(2)
  /\ handle = prev.handle
  /\ calls[1].res.text.data = prev.collection
  /\ calls[2].res.text.data = prev.products

\* C11: a run writes the one slot (shop owner, namespace "email", key
\* "collection_html_1") at most once, a successful run leaves in it the HTML
\* it rendered, and a successful run with the same handle against the same
\* collection and products as an earlier successful run leaves the slot
\* holding the value the earlier run left, whatever the date of either run.
C11_IdempotentReplace ==
  /\ Cardinality(Writes) <= 1
  /\ \A i \in Writes :
       /\ calls[i].variables.namespace = "email"
       /\ calls[i].variables.key = "collection_html_1"
       /\ calls[i].variables.ownerId = ShopId
       /\ calls[i].variables.value = local.html
  /\ pc = "done" => (Cardinality(Writes) = 1 /\ slot = local.html)
  /\ (pc # "done" /\ prev = NoRun) => slot = PreviousValue
  /\ (pc # "done" /\ prev # NoRun) => slot = prev.slot
  /\ (pc = "done" /\ SameAsEarlierRun) => slot = prev.slot

C11_SecondRunSameValue ==
  /\ pc = "done" /\ SameAsEarlierRun
  /\ argv2 = <<"week-4-plants">>
  /\ script = "card"
  /\ getUTCMonth(now.day) # getUTCMonth(prev.now.day)
  /\ Len(local.products) = 2
  /\ slot = prev.slot

====
